---- MODULE Spec2Model ----
(***************************************************************************)
(* A model of the vk client's transport layer (transport.go): the Request  *)
(* to HTTP conversion, the response processor (To, Raw), the Raw fragment  *)
(* type and Client.Do.                                                     *)
(*                                                                         *)
(* Every operation is one action: it draws its inputs from the bounded     *)
(* sets below, runs the whole function and leaves in the state the inputs  *)
(* (call), the mutated objects, the returned error and the ordered list of *)
(* side effects (log). The operations keep no state between calls (every   *)
(* call works on the objects it is handed), so a behaviour is one call on  *)
(* fresh objects.                                                          *)
(***************************************************************************)
EXTENDS Integers, Sequences, FiniteSets, TLC

\* ---------------------------------------------------------------- bounds

\* The longest value list a caller parameter carries.
MaxVals == 1
\* The longest byte sequence handed to Raw.UnmarshalJSON directly.
MaxLen == 3

\* ------------------------------------------------------ protocol constants

paramVersion == "v"
defaultVersion == "5.35"
paramHTTPS == "https"
defaultHTTPS == "1"
paramToken == "access_token"
defaultHost == "api.vk.com"
defaultScheme == "https"
defaultPath == "/method"
defaultMethod == "GET"
StatusOK == 200

\* ------------------------------------------------------------ input sets

SeqsUpTo(S, n) == UNION {[1..k -> S] : k \in 0..n}

\* Keys a caller may put in Request.Values: an ordinary one and two that
\* collide with the protocol's own.
CallerKeys == {"foo", "v", "access_token"}
\* Parameter values: one of unreserved characters only, one with a space.
ParamValues == {"bar", "a b"}
Tokens == {"", "token"}
Methods == {"users.get"}

\* url.Values: a map from key to a list of values.
ValuesSet == UNION {[K -> SeqsUpTo(ParamValues, MaxVals)] : K \in SUBSET CallerKeys}

\* The zero Request, Request{}.
NoRequest == [Method |-> "", Token |-> "", Values |-> <<>>]

Requests == [Method : Methods, Token : Tokens, Values : ValuesSet]

\* --------------------------------------------------- Request.HTTP (51-75)

\* The bytes of the keys the model uses (ASCII), for sort.Strings' order.
KeyBytes(k) ==
    CASE k = "access_token" -> <<97, 99, 99, 101, 115, 115, 95, 116, 111, 107, 101, 110>>
      [] k = "foo" -> <<102, 111, 111>>
      [] k = "https" -> <<104, 116, 116, 112, 115>>
      [] k = "v" -> <<118>>

\* Go's string order: bytewise lexicographic, a proper prefix first.
RECURSIVE BytesLess(_, _)
BytesLess(a, b) ==
    IF b = <<>> THEN FALSE
    ELSE IF a = <<>> THEN TRUE
    ELSE IF Head(a) # Head(b) THEN Head(a) < Head(b)
    ELSE BytesLess(Tail(a), Tail(b))

StrLess(a, b) == BytesLess(KeyBytes(a), KeyBytes(b))

\* sort.Strings over the key set.
RECURSIVE SortKeys(_)
SortKeys(S) ==
    IF S = {} THEN <<>>
    ELSE LET m == CHOOSE x \in S : \A y \in S \ {x} : StrLess(x, y)
         IN <<m>> \o SortKeys(S \ {m})

\* url.QueryEscape on the model's strings: a space becomes "+", the
\* unreserved characters (letters, digits, "_", ".") stay.
QueryEscape(s) == IF s = "a b" THEN "a+b" ELSE s

\* url.Values.Add: append to the key's list.
Add(values, k, x) ==
    IF k \in DOMAIN values
    THEN [values EXCEPT ![k] = Append(@, x)]
    ELSE values @@ (k :> <<x>>)

\* url.Values.Set: replace the key's list.
Set(values, k, x) ==
    IF k \in DOMAIN values
    THEN [values EXCEPT ![k] = <<x>>]
    ELSE values @@ (k :> <<x>>)

\* The key=value components of one key, in the order of its list.
KeyPairs(k, vs) == [i \in 1..Len(vs) |-> <<QueryEscape(k), QueryEscape(vs[i])>>]

RECURSIVE EncodeKeys(_, _)
EncodeKeys(values, keys) ==
    IF keys = <<>> THEN <<>>
    ELSE KeyPairs(Head(keys), values[Head(keys)]) \o EncodeKeys(values, Tail(keys))

\* url.Values.Encode as the list of its key=value components: the keys
\* sorted, each key's values in list order.
Encode(values) == EncodeKeys(values, SortKeys(DOMAIN values))

\* The components joined into the query string.
RECURSIVE JoinQuery(_)
JoinQuery(pairs) ==
    IF pairs = <<>> THEN ""
    ELSE Head(pairs)[1] \o "=" \o Head(pairs)[2]
         \o (IF Len(pairs) > 1 THEN "&" ELSE "") \o JoinQuery(Tail(pairs))

\* A mutant of HTTP: the protocol parameters replace the caller's (Set).
HTTP_Set(r) ==
    LET v1 == Set(r.Values, paramVersion, defaultVersion)
        v2 == Set(v1, paramHTTPS, defaultHTTPS)
        v3 == IF r.Token # "" THEN Set(v2, paramToken, r.Token) ELSE v2
    IN [Method |-> defaultMethod, Scheme |-> defaultScheme, Host |-> defaultHost,
        Path |-> defaultPath \o "/" \o r.Method,
        Query |-> Encode(v3), RawQuery |-> JoinQuery(Encode(v3))]

\* A mutant of HTTP: the token is added whether or not it is empty.
HTTP_AlwaysToken(r) ==
    LET v1 == Add(r.Values, paramVersion, defaultVersion)
        v2 == Add(v1, paramHTTPS, defaultHTTPS)
        v3 == Add(v2, paramToken, r.Token)
    IN [Method |-> defaultMethod, Scheme |-> defaultScheme, Host |-> defaultHost,
        Path |-> defaultPath \o "/" \o r.Method,
        Query |-> Encode(v3), RawQuery |-> JoinQuery(Encode(v3))]

\* Request.HTTP: the caller's parameters copied, then v, https and (for a
\* non-empty token) access_token added; GET https://api.vk.com/method/<m>.
HTTP(r) ==
    LET v1 == Add(r.Values, paramVersion, defaultVersion)
        v2 == Add(v1, paramHTTPS, defaultHTTPS)
        v3 == IF r.Token # "" THEN Add(v2, paramToken, r.Token) ELSE v2
    IN [Method |-> defaultMethod, Scheme |-> defaultScheme, Host |-> defaultHost,
        Path |-> defaultPath \o "/" \o r.Method,
        Query |-> Encode(v3), RawQuery |-> JoinQuery(Encode(v3))]

NoHTTP == [Method |-> "", Scheme |-> "", Host |-> "", Path |-> "",
           Query |-> <<>>, RawQuery |-> ""]

\* ------------------------------------------------------------ error values

Err(kind) == [kind |-> kind, code |-> 0, msg |-> ""]
Nil == Err("nil")
ErrBadResponseCode == Err("ErrBadResponseCode")
\* A failure of the injected HTTPClient.
ErrTransport == Err("ErrTransport")
\* What the stream's Read returns (errorReader, io.ErrUnexpectedEOF).
ErrRead == Err("io.ErrUnexpectedEOF")
\* encoding/json's *SyntaxError and *UnmarshalTypeError.
ErrSyntax == Err("SyntaxError")
ErrType == Err("UnmarshalTypeError")
\* The hook has not run.
NotCalled == Err("notcalled")

\* ------------------------------------------------- Raw fragment (103-122)

\* The bytes of the model's JSON texts.
Bytes == {"[", "]", "1", " "}
Space == " "

\* json.Compact's effect on the model's texts: whitespace dropped.
StripSpace(b) == SelectSeq(b, LAMBDA c : c # Space)

\* A mutant of UnmarshalJSON: the value is compacted before it is kept.
RawUnmarshalJSON_Compact(data) == StripSpace(data)

\* Raw.UnmarshalJSON: *m = data.
RawUnmarshalJSON(data) == data

\* Raw.MarshalJSON: return m, nil.
RawMarshalJSON(m) == m

\* Raw.Bytes: []byte(r).
RawBytes(r) == r

\* --------------------------------------------------------- streams, bodies

\* The zero Error of a fresh decode target.
NoErrorInfo == [Code |-> 0, Message |-> ""]
\* The error objects a reply may carry (code 10 is ErrInternalServerError).
ErrorInfos == {[Code |-> 10, Message |-> "Internal server error"]}

\* The texts of a reply's response value: arrays with and without inner
\* whitespace, the empty array, a number, an object, null.
ResponseTexts ==
    { <<"[", "1", "]">>, <<"[", " ", "1", " ", "]">>, <<"[", "]">>,
      <<"1">>, <<"{", "}">>, <<"n", "u", "l", "l">> }

\* What the stream yields: a failing Read, text that is not JSON, or an
\* envelope with an optional error object and an optional response value.
Bodies ==
    { [kind |-> "readerr", hasError |-> FALSE, error |-> NoErrorInfo,
       hasResponse |-> FALSE, response |-> <<>>],
      [kind |-> "syntax", hasError |-> FALSE, error |-> NoErrorInfo,
       hasResponse |-> FALSE, response |-> <<>>] }
    \cup
    { [kind |-> "json", hasError |-> FALSE, error |-> NoErrorInfo,
       hasResponse |-> FALSE, response |-> <<>>] }
    \cup
    [kind : {"json"}, hasError : {TRUE}, error : ErrorInfos,
     hasResponse : {FALSE}, response : {<<>>}]
    \cup
    [kind : {"json"}, hasError : {FALSE}, error : {NoErrorInfo},
     hasResponse : {TRUE}, response : ResponseTexts]
    \cup
    [kind : {"json"}, hasError : {TRUE}, error : ErrorInfos,
     hasResponse : {TRUE}, response : ResponseTexts]

\* An io.Reader, which may be an io.ReadCloser; reads and closed count the
\* calls made on it.
Streams == [closable : BOOLEAN, body : Bodies, reads : {0}, closed : {0}]
NoStream == [closable |-> FALSE,
             body |-> [kind |-> "none", hasError |-> FALSE, error |-> NoErrorInfo,
                       hasResponse |-> FALSE, response |-> <<>>],
             reads |-> 0, closed |-> 0]

\* ------------------------------------------------------- decode targets

\* A Response target: the embedded Error (with the Request it keeps) and a
\* response field, typed ("slice", like Data) or Raw ("raw", RawResponse).
Target(kind, request) ==
    [kind |-> kind, Error |-> NoErrorInfo, Request |-> request, Response |-> <<>>]
NoTarget == Target("none", NoRequest)
\* &RawResponse{}
NewRawResponse == Target("raw", NoRequest)

\* Error.setRequest: keep the request in the target.
setRequest(response, request) == [response EXCEPT !.Request = request]

\* Error.ServerError: the embedded error when the reply carried one.
ServerError(response) ==
    IF response.Error.Code # 0
    THEN [kind |-> "ServerError", code |-> response.Error.Code,
          msg |-> response.Error.Message]
    ELSE Nil

\* ------------------------------------------------------ encoding/json

\* The kind of JSON value a (valid) text holds, by its first byte.
JSONType(text) ==
    CASE Head(text) = "[" -> "array"
      [] Head(text) = "{" -> "object"
      [] Head(text) = "n" -> "null"
      [] OTHER -> "number"

\* The elements of one of the model's arrays.
Elements(text) == SelectSeq(text, LAMBDA c : c \notin {"[", "]", Space, ","})

\* Decoding a value text into a typed field of kind k ("slice", "struct",
\* "int"), whose value is old: null empties a slice and leaves a struct or
\* an int; an array replaces a slice's elements; an object without members
\* sets none of a struct's fields; a value of another JSON type is an
\* UnmarshalTypeError and leaves the field.
DecodeValue(text, k, old) ==
    LET t == JSONType(text) IN
    IF t = "null" THEN [err |-> Nil, value |-> IF k = "slice" THEN <<>> ELSE old]
    ELSE IF k = "slice" /\ t = "array" THEN [err |-> Nil, value |-> Elements(text)]
    ELSE IF k = "struct" /\ t = "object" THEN [err |-> Nil, value |-> old]
    ELSE IF k = "int" /\ t = "number" THEN [err |-> Nil, value |-> text]
    ELSE [err |-> ErrType, value |-> old]

\* json.NewDecoder(input).Decode(response): a failing Read or a syntax
\* error leaves the target alone; otherwise the members present are decoded
\* into their fields (the Request, tagged out of the JSON, is kept).
Decode(input, response) ==
    LET b == input.body
        in1 == [input EXCEPT !.reads = @ + 1]
        e1 == IF b.hasError THEN [response EXCEPT !.Error = b.error] ELSE response
        dv == DecodeValue(b.response, response.kind, response.Response)
    IN
    CASE b.kind = "readerr" -> [input |-> in1, response |-> response, err |-> ErrRead]
      [] b.kind = "syntax" -> [input |-> in1, response |-> response, err |-> ErrSyntax]
      [] OTHER ->
         IF ~b.hasResponse THEN [input |-> in1, response |-> e1, err |-> Nil]
         ELSE IF response.kind = "raw"
         THEN [input |-> in1,
               response |-> [e1 EXCEPT !.Response = RawUnmarshalJSON(b.response)],
               err |-> Nil]
         ELSE [input |-> in1, response |-> [e1 EXCEPT !.Response = dv.value],
               err |-> dv.err]

\* json.Unmarshal(data, v): no bytes is a syntax error (unexpected end of
\* JSON input); v is [kind, value].
Unmarshal(data, v) ==
    IF data = <<>> THEN [v |-> v, err |-> ErrSyntax]
    ELSE LET dv == DecodeValue(data, v.kind, v.value)
         IN [v |-> [v EXCEPT !.value = dv.value], err |-> dv.err]

\* ------------------------------------------- response processor (129-150)

\* rc.Close(), when the input is an io.ReadCloser.
Close(input) == IF input.closable THEN [input EXCEPT !.closed = @ + 1] ELSE input
CloseLog(input) == IF input.closable THEN <<"Close">> ELSE <<>>

\* A mutant of To: Close is called on the success path only (no defer).
To_NoDefer(input, response) ==
    LET d == Decode(input, response) IN
    IF d.err # Nil
    THEN [input |-> d.input, response |-> d.response, ret |-> d.err,
          hookRet |-> NotCalled, log |-> <<"Decode">>]
    ELSE [input |-> Close(d.input), response |-> d.response,
          ret |-> ServerError(d.response), hookRet |-> ServerError(d.response),
          log |-> <<"Decode", "ServerError">> \o CloseLog(input)]

\* A mutant of To: the decode failure is dropped and the hook decides.
To_IgnoreDecodeErr(input, response) ==
    LET d == Decode(input, response) IN
    [input |-> Close(d.input), response |-> d.response,
     ret |-> ServerError(d.response), hookRet |-> ServerError(d.response),
     log |-> <<"Decode", "ServerError">> \o CloseLog(input)]

\* A mutant of To: the envelope is decoded into a zeroed target.
To_ResetTarget(input, response) ==
    LET d == Decode(input, Target(response.kind, NoRequest)) IN
    IF d.err # Nil
    THEN [input |-> Close(d.input), response |-> d.response, ret |-> d.err,
          hookRet |-> NotCalled, log |-> <<"Decode">> \o CloseLog(input)]
    ELSE [input |-> Close(d.input), response |-> d.response,
          ret |-> ServerError(d.response), hookRet |-> ServerError(d.response),
          log |-> <<"Decode", "ServerError">> \o CloseLog(input)]

\* vkResponseProcessor.To: Close deferred for a closable input; a decode
\* failure is returned as it is; otherwise the hook's result is.
To(input, response) ==
    LET d == Decode(input, response) IN
    IF d.err # Nil
    THEN [input |-> Close(d.input), response |-> d.response, ret |-> d.err,
          hookRet |-> NotCalled, log |-> <<"Decode">> \o CloseLog(input)]
    ELSE [input |-> Close(d.input), response |-> d.response,
          ret |-> ServerError(d.response), hookRet |-> ServerError(d.response),
          log |-> <<"Decode", "ServerError">> \o CloseLog(input)]

\* A mutant of Raw: the captured bytes are re-decoded whatever To returned.
Raw_DecodeFirst(input, v) ==
    LET t == To(input, NewRawResponse)
        u == Unmarshal(RawBytes(t.response.Response), v)
    IN [input |-> t.input, raw |-> t.response, v |-> u.v,
        ret |-> IF t.ret # Nil THEN t.ret ELSE u.err,
        hookRet |-> t.hookRet, log |-> t.log \o <<"Unmarshal">>]

\* vkResponseProcessor.Raw: To into a fresh RawResponse; on its failure
\* that failure; otherwise the captured bytes are decoded into v.
Raw(input, v) ==
    LET t == To(input, NewRawResponse)
        u == Unmarshal(RawBytes(t.response.Response), v)
    IN IF t.ret # Nil
       THEN [input |-> t.input, raw |-> t.response, v |-> v, ret |-> t.ret,
             hookRet |-> t.hookRet, log |-> t.log]
       ELSE [input |-> t.input, raw |-> t.response, v |-> u.v, ret |-> u.err,
             hookRet |-> t.hookRet, log |-> t.log \o <<"Unmarshal">>]

\* ----------------------------------------------------- Client.Do (37-48)

\* What the injected HTTPClient returns: (res, err), res with a status code
\* and a body. http.Response.Body is an io.ReadCloser: every body is
\* closable.
StatusCodes == {200, 204, 400}
ResponseBodies == {s \in Streams : s.closable}
Transports ==
    [err : {Nil}, StatusCode : StatusCodes, Body : ResponseBodies]
    \cup
    [err : {ErrTransport}, StatusCode : {400},
     Body : {s \in ResponseBodies : s.body.kind = "syntax"}]

\* A mutant of Do: every 2xx status is taken for success.
Do_Any2xx(c, request, response) ==
    LET r1 == setRequest(response, request)
        req == HTTP(request)
        t == To(c.Body, r1)
    IN IF c.err # Nil
       THEN [input |-> c.Body, response |-> r1, ret |-> c.err, hookRet |-> NotCalled,
             req |-> req, log |-> <<"setRequest", "HTTP", "httpClient.Do">>]
       ELSE IF c.StatusCode < 200 \/ c.StatusCode >= 300
       THEN [input |-> c.Body, response |-> r1, ret |-> ErrBadResponseCode,
             hookRet |-> NotCalled, req |-> req,
             log |-> <<"setRequest", "HTTP", "httpClient.Do">>]
       ELSE [input |-> t.input, response |-> t.response, ret |-> t.ret,
             hookRet |-> t.hookRet, req |-> req,
             log |-> <<"setRequest", "HTTP", "httpClient.Do", "Process">> \o t.log]

\* A mutant of Do: the request is attached after a successful decode only.
Do_AttachLate(c, request, response) ==
    LET req == HTTP(request)
        t == To(c.Body, response)
    IN IF c.err # Nil
       THEN [input |-> c.Body, response |-> response, ret |-> c.err,
             hookRet |-> NotCalled, req |-> req, log |-> <<"HTTP", "httpClient.Do">>]
       ELSE IF c.StatusCode # StatusOK
       THEN [input |-> c.Body, response |-> response, ret |-> ErrBadResponseCode,
             hookRet |-> NotCalled, req |-> req, log |-> <<"HTTP", "httpClient.Do">>]
       ELSE [input |-> t.input,
             response |-> IF t.ret = Nil THEN setRequest(t.response, request)
                          ELSE t.response,
             ret |-> t.ret, hookRet |-> t.hookRet, req |-> req,
             log |-> <<"HTTP", "httpClient.Do", "Process">> \o t.log
                     \o (IF t.ret = Nil THEN <<"setRequest">> ELSE <<>>)]

\* Client.Do: attach the request, build the HTTP request, perform it; a
\* transport failure is returned as it is, a status other than 200 is
\* ErrBadResponseCode, and only then is the body processed into the target.
Do(c, request, response) ==
    LET r1 == setRequest(response, request)
        req == HTTP(request)
        t == To(c.Body, r1)
    IN IF c.err # Nil
       THEN [input |-> c.Body, response |-> r1, ret |-> c.err, hookRet |-> NotCalled,
             req |-> req, log |-> <<"setRequest", "HTTP", "httpClient.Do">>]
       ELSE IF c.StatusCode # StatusOK
       THEN [input |-> c.Body, response |-> r1, ret |-> ErrBadResponseCode,
             hookRet |-> NotCalled, req |-> req,
             log |-> <<"setRequest", "HTTP", "httpClient.Do">>]
       ELSE [input |-> t.input, response |-> t.response, ret |-> t.ret,
             hookRet |-> t.hookRet, req |-> req,
             log |-> <<"setRequest", "HTTP", "httpClient.Do", "Process">> \o t.log]

\* ------------------------------------------------------------------ state

VARIABLES
    op,       \* the operation that ran last
    call,     \* its inputs, as they were when it was called
    target,   \* the Response target after the call
    stream,   \* the input stream after the call
    v,        \* Raw's target after the call
    m,        \* the Raw fragment (RawResponse.Response, or UnmarshalJSON's)
    data,     \* what MarshalJSON returned
    ret,      \* the error returned
    hookRet,  \* what the ServerError hook returned, NotCalled if it did not run
    log,      \* the calls made, in order
    httpReq   \* the *http.Request built

vars == <<op, call, target, stream, v, m, data, ret, hookRet, log, httpReq>>

\* Raw's targets: a slice, a struct or an int, fresh or already holding data.
VKinds == {"slice", "struct", "int"}
NoV == [kind |-> "none", value |-> <<>>]
VTargets == [kind : VKinds, value : {<<>>, <<"9">>}]

NoTransport == [err |-> Nil, StatusCode |-> 0, Body |-> NoStream]

NoCall == [request |-> NoRequest, response |-> NoTarget, input |-> NoStream,
           client |-> NoTransport, v |-> NoV, data |-> <<>>]

\* The targets a caller hands to To directly: fresh, or with a request the
\* caller attached before.
AttachedRequest ==
    [Method |-> "users.get", Token |-> "token", Values |-> ("foo" :> <<"bar">>)]
ToTargets ==
    {Target(k, r) : k \in {"slice", "raw"}, r \in {NoRequest, AttachedRequest}}
\* The requests handed to Do: those with at most one caller parameter.
DoRequests == {r \in Requests : Cardinality(DOMAIN r.Values) <= 1}
\* The targets handed to Do: fresh.
DoTargets == {Target(k, NoRequest) : k \in {"slice", "raw"}}

Init ==
    /\ op = "none"
    /\ call = NoCall
    /\ target = NoTarget
    /\ stream = NoStream
    /\ v = NoV
    /\ m = <<>>
    /\ data = <<>>
    /\ ret = Nil
    /\ hookRet = NotCalled
    /\ log = <<>>
    /\ httpReq = NoHTTP

\* r.HTTP()
CallHTTP ==
    \E r \in Requests :
        /\ op = "none"
        /\ op' = "HTTP"
        /\ call' = [NoCall EXCEPT !.request = r]
        /\ httpReq' = HTTP(r)
        /\ log' = <<"HTTP">>
        /\ target' = NoTarget /\ stream' = NoStream /\ v' = NoV
        /\ m' = <<>> /\ data' = <<>> /\ ret' = Nil /\ hookRet' = NotCalled

\* Process(input).To(response)
CallTo ==
    \E input \in Streams, response \in ToTargets :
        LET t == To(input, response) IN
        /\ op = "none"
        /\ op' = "To"
        /\ call' = [NoCall EXCEPT !.input = input, !.response = response]
        /\ target' = t.response
        /\ stream' = t.input
        /\ m' = IF response.kind = "raw" THEN t.response.Response ELSE <<>>
        /\ ret' = t.ret
        /\ hookRet' = t.hookRet
        /\ log' = <<"Process">> \o t.log
        /\ v' = NoV /\ data' = <<>> /\ httpReq' = NoHTTP

\* Process(input).Raw(&v)
CallRaw ==
    \E input \in Streams, v0 \in VTargets :
        LET t == Raw(input, v0) IN
        /\ op = "none"
        /\ op' = "Raw"
        /\ call' = [NoCall EXCEPT !.input = input, !.v = v0]
        /\ target' = t.raw
        /\ stream' = t.input
        /\ v' = t.v
        /\ m' = t.raw.Response
        /\ ret' = t.ret
        /\ hookRet' = t.hookRet
        /\ log' = <<"Process">> \o t.log
        /\ data' = <<>> /\ httpReq' = NoHTTP

\* client.Do(request, response)
CallDo ==
    \E c \in Transports, request \in DoRequests, response \in DoTargets :
        LET t == Do(c, request, response) IN
        /\ op = "none"
        /\ op' = "Do"
        /\ call' = [NoCall EXCEPT !.client = c, !.input = c.Body,
                                  !.request = request, !.response = response]
        /\ target' = t.response
        /\ stream' = t.input
        /\ m' = IF response.kind = "raw" THEN t.response.Response ELSE <<>>
        /\ ret' = t.ret
        /\ hookRet' = t.hookRet
        /\ log' = t.log
        /\ httpReq' = t.req
        /\ v' = NoV /\ data' = <<>>

\* var r Raw; r.UnmarshalJSON(b); r.MarshalJSON()
CallRawRoundTrip ==
    \E b \in SeqsUpTo(Bytes, MaxLen) :
        /\ op = "none"
        /\ op' = "RoundTrip"
        /\ call' = [NoCall EXCEPT !.data = b]
        /\ m' = RawUnmarshalJSON(b)
        /\ data' = RawMarshalJSON(RawUnmarshalJSON(b))
        /\ log' = <<"UnmarshalJSON", "MarshalJSON">>
        /\ target' = NoTarget /\ stream' = NoStream /\ v' = NoV
        /\ ret' = Nil /\ hookRet' = NotCalled /\ httpReq' = NoHTTP

Next == CallHTTP \/ CallTo \/ CallRaw \/ CallDo \/ CallRawRoundTrip

Spec == Init /\ [][Next]_vars

\* -------------------------------------------------------------- helpers

InLog(e) == \E i \in DOMAIN log : log[i] = e
Count(e) == Cardinality({i \in DOMAIN log : log[i] = e})
Before(a, b) == \E i, j \in DOMAIN log : i < j /\ log[i] = a /\ log[j] = b

\* The values a key carries in a query, in the order they appear.
RECURSIVE ValuesOf(_, _)
ValuesOf(q, k) ==
    IF q = <<>> THEN <<>>
    ELSE (IF Head(q)[1] = k THEN <<Head(q)[2]>> ELSE <<>>) \o ValuesOf(Tail(q), k)

\* The caller's values for a key, escaped; none when the key is absent.
CallerValues(r, k) ==
    IF k \in DOMAIN r.Values
    THEN [i \in 1..Len(r.Values[k]) |-> QueryEscape(r.Values[k][i])]
    ELSE <<>>

\* What the protocol adds for a key.
ProtocolValues(r, k) ==
    IF k = "v" THEN <<"5.35">>
    ELSE IF k = "https" THEN <<"1">>
    ELSE IF k = "access_token" /\ r.Token # "" THEN <<r.Token>>
    ELSE <<>>

AllKeys == CallerKeys \cup {"v", "https", "access_token"}

\* The envelope decode fails: the read fails or the text is not JSON.
EnvelopeFails == call.input.body.kind \in {"readerr", "syntax"}

\* ----------------------------------------------------------------- claims

\* C1: a closable stream handed to Process is closed exactly once by To and
\* by Raw, on every exit path: decode success, decode failure, an error
\* from the hook, and the failure of Raw's second decode. A body that Do
\* hands to Process is always closable, so it is closed exactly once too.
C1_ClosedExactlyOnce ==
    /\ (InLog("Process") /\ call.input.closable)
            => (stream.closed = 1 /\ Count("Close") = 1)
    /\ (op = "Do" /\ InLog("Process"))
            => (stream.closed = 1 /\ Count("Close") = 1)

\* C1's case: Raw's second decode failed on a closable stream.
C1_Witness ==
    /\ op = "Raw" /\ call.input.closable
    /\ InLog("Unmarshal") /\ ret = ErrType
    /\ stream.closed = 1

\* C2: Do processes the body only when the transport reported no failure
\* and the status is 200; for any other status without a transport failure
\* it returns ErrBadResponseCode, the body is not read or decoded and the
\* ServerError hook does not run.
C2_BadStatusNotDecoded ==
    op = "Do" =>
        /\ InLog("Process") => (call.client.err = Nil /\ call.client.StatusCode = 200)
        /\ (call.client.err = Nil /\ call.client.StatusCode # 200) =>
              /\ ret = ErrBadResponseCode
              /\ stream.reads = 0
              /\ ~InLog("Decode")
              /\ hookRet = NotCalled /\ ~InLog("ServerError")
              /\ target.Error = NoErrorInfo /\ target.Response = <<>>

\* C2's case: status 204 with a body that holds a server error.
C2_Witness ==
    /\ op = "Do" /\ call.client.err = Nil /\ call.client.StatusCode = 204
    /\ call.input.body.kind = "json" /\ call.input.body.hasError
    /\ ret = ErrBadResponseCode

\* C3: Do attaches the Request to the target before it invokes the
\* transport, so on every exit path the target holds the Request passed in.
C3_RequestAttachedFirst ==
    op = "Do" =>
        /\ target.Request = call.request
        /\ Before("setRequest", "httpClient.Do")

\* C3's case: the transport failed and the target holds the request.
C3_Witness ==
    /\ op = "Do" /\ ret = ErrTransport
    /\ call.response.Request = NoRequest
    /\ target.Request = call.request /\ call.request \in Requests

\* C4 as stated: after any successful To, one made directly through
\* Process(stream).To(target) included, the processor has attached the
\* original Request to the target.
C4_Original ==
    (op \in {"To", "Do"} /\ hookRet = Nil /\ ret = Nil) => target.Request # NoRequest

\* C4 amended: a successful To returns no error and leaves the Request the
\* target holds as it was: the processor attaches nothing. The one
\* setRequest call is the one Do makes, before the transport is invoked and
\* the body processed; a direct To makes none.
C4_ToKeepsRequest ==
    /\ (op \in {"To", "Do"} /\ hookRet = Nil) => ret = Nil
    /\ op = "To" => (target.Request = call.response.Request /\ Count("setRequest") = 0)
    /\ (op = "Do" /\ InLog("Process")) =>
            (Count("setRequest") = 1 /\ Before("setRequest", "Process"))

\* C4's case: a successful direct To on a fresh target, nothing attached.
C4_Witness ==
    /\ op = "To" /\ hookRet = Nil /\ ret = Nil
    /\ call.response.Request = NoRequest /\ target.Request = NoRequest
    /\ target.Response # <<>>

\* C5: when the envelope decode fails, To and Raw return that failure and
\* the ServerError hook does not run; the hook runs only after a successful
\* decode, and To then returns what the hook returned.
C5_DecodeFailureSkipsHook ==
    op \in {"To", "Raw"} =>
        /\ call.input.body.kind = "readerr" => ret = ErrRead
        /\ call.input.body.kind = "syntax" => ret = ErrSyntax
        /\ EnvelopeFails => (hookRet = NotCalled /\ ~InLog("ServerError"))
        /\ InLog("ServerError") => (~EnvelopeFails /\ hookRet # NotCalled)
        /\ (op = "To" /\ InLog("ServerError")) => ret = hookRet

\* C5's case: Raw on a stream whose Read fails.
C5_Witness ==
    /\ op = "Raw" /\ call.input.body.kind = "readerr"
    /\ ret = ErrRead /\ hookRet = NotCalled

\* C6 as stated: with a non-empty token the query lists the caller's
\* parameters first, then v, then https, then access_token.
C6_Original ==
    (op = "HTTP" /\ call.request.Token # "") =>
        LET q == httpReq.Query
            n == Len(q)
        IN /\ n >= 3
           /\ q[n - 2] = <<"v", "5.35">>
           /\ q[n - 1] = <<"https", "1">>
           /\ q[n] = <<"access_token", call.request.Token>>
           /\ \A k \in AllKeys :
                ValuesOf(SubSeq(q, 1, n - 3), k) = CallerValues(call.request, k)

\* C6 amended: with a non-empty token the query lists the parameters in
\* ascending byte order of their keys; each key carries the caller's values
\* for it, in the caller's order, followed by the protocol's value for it
\* (5.35 for v, 1 for https, the token for access_token), and nothing else.
C6_QuerySortedByKey ==
    (op = "HTTP" /\ call.request.Token # "") =>
        LET q == httpReq.Query IN
        /\ \A i, j \in DOMAIN q : i < j => ~StrLess(q[j][1], q[i][1])
        /\ \A i \in DOMAIN q : q[i][1] \in AllKeys
        /\ \A k \in AllKeys :
             ValuesOf(q, k) = CallerValues(call.request, k)
                              \o ProtocolValues(call.request, k)

\* C6's case: the request of TestNewRequest and the URL query it expects.
C6_Witness ==
    /\ op = "HTTP" /\ call.request.Token = "token"
    /\ call.request.Values = ("foo" :> <<"bar">>)
    /\ httpReq.RawQuery = "access_token=token&foo=bar&https=1&v=5.35"

\* C7 as stated: with an empty token the query holds no access_token
\* parameter, whatever the caller's parameters are.
C7_Original ==
    (op = "HTTP" /\ call.request.Token = "") =>
        \A i \in DOMAIN httpReq.Query : httpReq.Query[i][1] # "access_token"

\* C7 amended: with an empty token HTTP adds no access_token parameter of
\* its own: the query carries exactly the access_token values of the
\* caller's parameters, none when the caller has none.
C7_NoTokenAdded ==
    (op = "HTTP" /\ call.request.Token = "") =>
        ValuesOf(httpReq.Query, "access_token")
            = CallerValues(call.request, "access_token")

\* C7's case: an empty token and a caller parameter named access_token.
C7_Witness ==
    /\ op = "HTTP" /\ call.request.Token = ""
    /\ "access_token" \in DOMAIN call.request.Values
    /\ call.request.Values["access_token"] = <<"bar">>
    /\ ValuesOf(httpReq.Query, "access_token") = <<"bar">>

\* C8: when a caller's key collides with a key the protocol sets, the
\* protocol's value wins: the key carries the protocol's value only.
C8_ReservedWins ==
    op = "HTTP" =>
        \A k \in DOMAIN call.request.Values :
            ProtocolValues(call.request, k) # <<>>
                => ValuesOf(httpReq.Query, k) = ProtocolValues(call.request, k)

\* C9: a Raw fragment keeps the bytes it is given and gives them back:
\* MarshalJSON after UnmarshalJSON(b) returns b, and after a successful
\* decode into a RawResponse the Response field is the text of the
\* envelope's response value, byte for byte.
C9_RawVerbatim ==
    /\ op = "RoundTrip" => (m = call.data /\ data = call.data)
    /\ (op \in {"To", "Raw", "Do"} /\ target.kind = "raw" /\ InLog("ServerError")
        /\ call.input.body.hasResponse)
           => (target.Response = call.input.body.response
               /\ RawBytes(m) = call.input.body.response)

\* C9's case: a RawResponse filled through Do from a value with inner
\* whitespace.
C9_Witness ==
    /\ op = "Do" /\ target.kind = "raw" /\ ret = Nil
    /\ call.input.body.response = <<"[", " ", "1", " ", "]">>
    /\ target.Response = <<"[", " ", "1", " ", "]">>

\* C10: Raw decodes the captured bytes into v only after the envelope
\* decode succeeded and the hook reported no error; when Raw returns an
\* envelope decode failure or a server error, v is as it was.
C10_RawLeavesTarget ==
    op = "Raw" =>
        /\ (EnvelopeFails \/ call.input.body.hasError) =>
              (ret # Nil /\ v = call.v /\ ~InLog("Unmarshal"))
        /\ InLog("Unmarshal") => (~EnvelopeFails /\ hookRet = Nil)

\* C10's case: a reply with both an error and a response array, v a slice
\* that already holds data.
C10_Witness ==
    /\ op = "Raw" /\ call.input.body.hasError /\ call.input.body.hasResponse
    /\ call.input.body.response = <<"[", "1", "]">>
    /\ call.v = [kind |-> "slice", value |-> <<"9">>]
    /\ ret.kind = "ServerError" /\ v = call.v

====
